---------------------------- MODULE Spec2Model ----------------------------
(***************************************************************************)
(* The Jacobi-preconditioned conjugate gradient solver of                  *)
(* src/wasm-solver/src/lib.rs (solve_pcg and the primitives it calls).     *)
(*                                                                         *)
(* The solver computes in f64, and so does the model: a number is an       *)
(* IEEE-754 binary64 value <<s, e, m>> with sign s (0 or 1), e the         *)
(* exponent of the least significant bit of the significand, and m the     *)
(* significand in four limbs of 14 bits, least significant first.  Its     *)
(* value is (-1)^s * M * 2^e with M = m[1] + m[2]*2^14 + m[3]*2^28 +       *)
(* m[4]*2^42 < 2^53.  Normal numbers have 2^52 <= M; subnormal numbers     *)
(* and the two zeros have e = -1074.  e = 972 is an infinity, e = 973 is   *)
(* NaN.  Every operation rounds to nearest, ties to even.                  *)
(***************************************************************************)
EXTENDS Integers, Sequences, FiniteSets, TLC

\* the element of a set of one element: The({ e(v) : v \in {d} }) is e of
\* the value of d, with d computed once
The(S) == CHOOSE v \in S : TRUE

(***************************************************************************)
(* Natural numbers in limbs.                                               *)
(***************************************************************************)
LimbBits == 14

Base == 16384

\* the limbs of an intermediate result (a product, a shifted dividend)
Wide == 8

\* the bits of an f64 significand
MantBits == 53

\* the exponent of the least significant bit of a subnormal number
MinExp == -1074

\* the exponent of the least significant bit of the largest finite numbers
MaxExp == 971

InfExp == 972

NaNExp == 973

NoLimbs == <<0, 0, 0, 0>>

limb(a, k) == IF k >= 1 /\ k <= Len(a) THEN a[k] ELSE 0

\* a as a tuple of cnt = 4 or cnt = Wide limbs
Limbs(a, cnt) ==
    IF cnt = 4 THEN <<a[1], a[2], a[3], a[4]>>
    ELSE <<a[1], a[2], a[3], a[4], a[5], a[6], a[7], a[8]>>

Widen(m) == Limbs([k \in 1..Wide |-> limb(m, k)], Wide)

Narrow(a) == Limbs(a, 4)

\* a * 2^k, the limbs above Len(a) dropped
ShiftLeft(a, k) ==
    LET q  == k \div LimbBits
        hi == 2 ^ (k % LimbBits)
        lo == 2 ^ (LimbBits - (k % LimbBits))
    IN  Limbs([j \in 1..Len(a) |->
                  (limb(a, j - q) % lo) * hi + (limb(a, j - q - 1) \div lo)], Len(a))

\* a \div 2^k
ShiftRight(a, k) ==
    LET q  == k \div LimbBits
        lo == 2 ^ (k % LimbBits)
        hi == 2 ^ (LimbBits - (k % LimbBits))
    IN  Limbs([j \in 1..Len(a) |->
                  (limb(a, j + q) \div lo) + (limb(a, j + q + 1) % lo) * hi], Len(a))

\* a % 2^k = 0
LowZero(a, k) ==
    /\ \A j \in 1..Len(a) : j <= k \div LimbBits => a[j] = 0
    /\ limb(a, (k \div LimbBits) + 1) % (2 ^ (k % LimbBits)) = 0

RECURSIVE TopLimb(_, _)
TopLimb(a, k) == IF k = 0 THEN 0 ELSE IF a[k] # 0 THEN k ELSE TopLimb(a, k - 1)

RECURSIVE LimbLen(_)
LimbLen(v) == IF v = 0 THEN 0 ELSE 1 + LimbLen(v \div 2)

\* the number of bits of a
BitLen(a) ==
    The({ IF t = 0 THEN 0 ELSE LimbBits * (t - 1) + LimbLen(a[t]) :
          t \in {TopLimb(a, Len(a))} })

\* 1, 0, -1 as a >, =, < c on the limbs 1..k
RECURSIVE BigCmp(_, _, _)
BigCmp(a, c, k) ==
    IF k = 0 THEN 0
    ELSE IF a[k] > c[k] THEN 1
    ELSE IF a[k] < c[k] THEN -1
    ELSE BigCmp(a, c, k - 1)

RECURSIVE AddFrom(_, _, _, _)
AddFrom(a, c, k, carry) ==
    IF k > Len(a) THEN <<>>
    ELSE LET v == a[k] + c[k] + carry
         IN  <<v % Base>> \o AddFrom(a, c, k + 1, v \div Base)

\* a - c for a >= c
RECURSIVE SubFrom(_, _, _, _)
SubFrom(a, c, k, borrow) ==
    IF k > Len(a) THEN <<>>
    ELSE LET v == a[k] - c[k] - borrow
         IN  <<v % Base>> \o SubFrom(a, c, k + 1, IF v < 0 THEN 1 ELSE 0)

RECURSIVE Carry(_, _, _)
Carry(col, k, c) ==
    IF k > Len(col) THEN <<c>>
    ELSE LET v == col[k] + c
         IN  <<v % Base>> \o Carry(col, k + 1, v \div Base)

\* the product of two significands, Wide limbs
MulWide(a, c) ==
    The({ Carry(col, 1, 0) :
          col \in {<<limb(a, 1) * limb(c, 1),
                     limb(a, 1) * limb(c, 2) + limb(a, 2) * limb(c, 1),
                     limb(a, 1) * limb(c, 3) + limb(a, 2) * limb(c, 2)
                     + limb(a, 3) * limb(c, 1),
                     limb(a, 1) * limb(c, 4) + limb(a, 2) * limb(c, 3)
                     + limb(a, 3) * limb(c, 2) + limb(a, 4) * limb(c, 1),
                     limb(a, 2) * limb(c, 4) + limb(a, 3) * limb(c, 3)
                     + limb(a, 4) * limb(c, 2),
                     limb(a, 3) * limb(c, 4) + limb(a, 4) * limb(c, 3),
                     limb(a, 4) * limb(c, 4)>>} })

\* one digit of the quotient U \div D for U < D * Base: the estimate q is
\* lowered until its product P fits under U; <<digit, remainder>>
RECURSIVE Fit(_, _, _, _)
Fit(U, D, q, P) ==
    IF BigCmp(P, U, 5) <= 0
    THEN The({ <<q, Narrow(rest)>> : rest \in {SubFrom(U, P, 1, 0)} })
    ELSE The({ Fit(U, D, q - 1, less) : less \in {SubFrom(P, D, 1, 0)} })

\* the digit from the estimate q
DivFrom(U, D, q) ==
    The({ Fit(U, D, q, P) :
          P \in {Carry(<<q * D[1], q * D[2], q * D[3], q * D[4]>>, 1, 0)} })

DivDigit(R, x, D) ==
    The({ DivFrom(U, E, IF est >= Base THEN Base - 1 ELSE est) :
          U \in {<<x, R[1], R[2], R[3], R[4]>>},
          E \in {<<D[1], D[2], D[3], D[4], 0>>},
          est \in {(R[4] * Base + R[3]) \div D[4]} })

\* the digit and remainder s of one step put before the digits q
DivPush(q, s) == << <<s[1]>> \o q, s[2] >>

\* the digits of the quotient for the limbs k .. 1 of N, put before the
\* digits of qr = <<digits, remainder>>
RECURSIVE DivDigits(_, _, _, _)
DivDigits(N, D, k, qr) ==
    IF k = 0 THEN qr
    ELSE The({ DivDigits(N, D, k - 1, next) :
               next \in { DivPush(qr[1], s) : s \in {DivDigit(qr[2], N[k], D)} } })

\* <<N \div D, N % D>> for N of Wide limbs and D of 4 limbs with D[4] >= Base \div 2
\* and N < 2 * D * Base^4
LongDiv(N, D) ==
    The({ DivDigits(N, D, 4, qr) :
          qr \in {IF BigCmp(<<N[5], N[6], N[7], N[8]>>, D, 4) >= 0
                  THEN << <<1, 0, 0, 0>>, SubFrom(<<N[5], N[6], N[7], N[8]>>, D, 1, 0) >>
                  ELSE << <<0, 0, 0, 0>>, <<N[5], N[6], N[7], N[8]>> >>} })

\* the largest root with root^2 <= v, bit by bit from bit k down
RECURSIVE IntSqrt(_, _, _)
IntSqrt(v, root, k) ==
    IF k < 0 THEN root
    ELSE IF (root + 2 ^ k) * (root + 2 ^ k) <= v THEN IntSqrt(v, root + 2 ^ k, k - 1)
    ELSE IntSqrt(v, root, k - 1)

\* the largest root with root^2 <= N, by Heron's iteration from x >= that
\* root: y = (x + N \div x) \div 2 is the next iterate
RECURSIVE Heron(_, _)
HeronNext(N, x, y) ==
    IF BigCmp(y, Widen(x), Wide) >= 0 THEN x
    ELSE The({ Heron(N, w) : w \in {Narrow(y)} })

\* (sum of x and N \div x) \div 2
HeronHalf(N, x, sum) == The({ HeronNext(N, x, y) : y \in {ShiftRight(sum, 1)} })

HeronSum(N, x, wx, q) == The({ HeronHalf(N, x, sum) : sum \in {AddFrom(wx, q, 1, 0)} })

Heron(N, x) ==
    The({ HeronSum(N, x, wx, qr[1]) : wx \in {Widen(x)}, qr \in {LongDiv(N, x)} })

(***************************************************************************)
(* f64: the values, and the operations *, +, -, /, sqrt, abs, <, > and max *)
(* of lib.rs, each rounded to nearest, ties to even.                       *)
(***************************************************************************)
\* 0.0 (s = 0) and -0.0 (s = 1)
MakeZero(s) == <<s, MinExp, NoLimbs>>

Zero == MakeZero(0)

Inf(s) == <<s, InfExp, NoLimbs>>

NaN == <<0, NaNExp, NoLimbs>>

IsNaN(x) == x[2] = NaNExp

IsInf(x) == x[2] = InfExp

IsZero(x) == x[2] = MinExp /\ x[3] = NoLimbs

IsFinite(x) == x[2] <= MaxExp

\* the f64 of a rounded significand: past the largest finite number it is an infinity
Pack(s, e, m) == IF e > MaxExp THEN Inf(s) ELSE <<s, e, Narrow(m)>>

\* the f64 of the significand M rounded to 53 bits at exponent e; rounding up
\* to 2^53 carries into the exponent
RoundCarry(s, e, M) ==
    IF M[4] = 2048 THEN Pack(s, e + 1, Widen(<<0, 0, 0, 1024>>)) ELSE Pack(s, e, M)

\* N with its low sh >= 1 bits rounded off: Q1 = N \div 2^(sh - 1) holds the
\* half bit, Q = N \div 2^sh is rounded up on more than a half, or on a half
\* when Q is odd
RoundHalf(s, N, e, st, sh, Q1, Q) ==
    The({ RoundCarry(s, e, M) :
          M \in {IF /\ Q1[1] % 2 = 1
                    /\ (st = 1 \/ ~LowZero(N, sh - 1) \/ Q[1] % 2 = 1)
                 THEN AddFrom(Q, Widen(<<1>>), 1, 0)
                 ELSE Q} })

\* N of L bits with its low sh bits rounded off (sh <= 0: nothing to round)
RoundBits(s, N, e, st, L, sh) ==
    IF L = 0 THEN MakeZero(s)
    ELSE IF sh <= 0 THEN The({ Pack(s, e + sh, M) : M \in {ShiftLeft(N, -sh)} })
    ELSE The({ RoundHalf(s, N, e + sh, st, sh, Q1, Q) :
               Q1 \in {ShiftRight(N, sh - 1)}, Q \in {ShiftRight(N, sh)} })

\* N of L bits keeps 53 bits, fewer where the exponent would fall below MinExp
RoundLen(s, N, e, st, L) ==
    The({ RoundBits(s, N, e, st, L, sh) :
          sh \in {IF L - MantBits > MinExp - e THEN L - MantBits ELSE MinExp - e} })

\* the f64 nearest to (-1)^s * (N + f) * 2^e, ties to even, where 0 <= f < 1
\* and st = 1 says f > 0 (the digits of a quotient or root left out of N)
Round(s, N, e, st) == The({ RoundLen(s, N, e, st, L) : L \in {BitLen(N)} })

\* the f64 of an integer literal
FromInt(k) ==
    The({ Round(IF k < 0 THEN 1 ELSE 0, N, 0, 0) :
          N \in {Widen(<<IF k < 0 THEN -k ELSE k>>)} })

One == FromInt(1)

\* -x
Neg(x) == IF IsNaN(x) THEN x ELSE <<1 - x[1], x[2], x[3]>>

\* x.abs()
FAbs(x) == IF IsNaN(x) THEN x ELSE <<0, x[2], x[3]>>

Xor(s, t) == IF s = t THEN 0 ELSE 1

\* x * y
Mul(x, y) ==
    IF IsNaN(x) \/ IsNaN(y) THEN NaN
    ELSE IF IsInf(x) \/ IsInf(y)
         THEN IF IsZero(x) \/ IsZero(y) THEN NaN ELSE Inf(Xor(x[1], y[1]))
    ELSE IF IsZero(x) \/ IsZero(y) THEN MakeZero(Xor(x[1], y[1]))
    ELSE The({ Round(Xor(x[1], y[1]), N, x[2] + y[2], 0) : N \in {MulWide(x[3], y[3])} })

\* hi + lo with the significands A of hi and B of lo at the exponent of lo;
\* an exact sum 0 is +0.0
AddAligned(hi, lo, A, B) ==
    IF hi[1] = lo[1] THEN The({ Round(hi[1], N, lo[2], 0) : N \in {AddFrom(A, B, 1, 0)} })
    ELSE IF BigCmp(A, B, Wide) = 0 THEN Zero
    ELSE IF BigCmp(A, B, Wide) > 0
         THEN The({ Round(hi[1], N, lo[2], 0) : N \in {SubFrom(A, B, 1, 0)} })
    ELSE The({ Round(lo[1], N, lo[2], 0) : N \in {SubFrom(B, A, 1, 0)} })

\* hi + lo for finite non-zero hi, lo with hi[2] >= lo[2]; a lo below the
\* rounding bits of hi leaves hi
AddFinite(hi, lo) ==
    IF hi[2] - lo[2] >= 56 THEN hi
    ELSE The({ AddAligned(hi, lo, A, B) :
               A \in { ShiftLeft(W, hi[2] - lo[2]) : W \in {Widen(hi[3])} },
               B \in {Widen(lo[3])} })

\* x + y
Add(x, y) ==
    IF IsNaN(x) \/ IsNaN(y) THEN NaN
    ELSE IF IsInf(x) THEN (IF IsInf(y) /\ x[1] # y[1] THEN NaN ELSE x)
    ELSE IF IsInf(y) THEN y
    ELSE IF IsZero(x) THEN (IF IsZero(y) THEN MakeZero(IF x[1] = 1 /\ y[1] = 1 THEN 1 ELSE 0) ELSE y)
    ELSE IF IsZero(y) THEN x
    ELSE AddFinite(IF x[2] >= y[2] THEN x ELSE y, IF x[2] >= y[2] THEN y ELSE x)

\* x - y
Sub(x, y) == Add(x, Neg(y))

\* the significand of x shifted left by k bits and the exponent that goes with it
NormalBy(x, k) == <<ShiftLeft(x[3], k), x[2] - k>>

\* the significand shifted to 53 bits
Normal(x) == The({ NormalBy(x, k) : k \in {MantBits - BitLen(x[3])} })

\* the quotient and remainder qr rounded: a remainder is the sticky bit
DivRound(s, e, qr) == Round(s, qr[1], e, IF qr[2] = NoLimbs THEN 0 ELSE 1)

\* the dividend X * Base^4
Dividend(X) == <<0, 0, 0, 0, X[1], X[2], X[3], X[4]>>

\* nx / ny for normal significands: 56 bits of quotient and a sticky bit
DivNormal(s, nx, ny) ==
    The({ DivRound(s, nx[2] - ny[2] - 56, qr) :
          qr \in { LongDiv(N, D) :
                   N \in { Dividend(X) : X \in {ShiftLeft(nx[1], 3)} },
                   D \in {ShiftLeft(ny[1], 3)} } })

\* x / y for finite non-zero x, y
DivFinite(s, x, y) == The({ DivNormal(s, nx, ny) : nx \in {Normal(x)}, ny \in {Normal(y)} })

\* x / y; a finite non-zero x over a zero is an infinity with the sign of both
Div(x, y) ==
    IF IsNaN(x) \/ IsNaN(y) THEN NaN
    ELSE IF IsInf(x) THEN (IF IsInf(y) THEN NaN ELSE Inf(Xor(x[1], y[1])))
    ELSE IF IsInf(y) THEN MakeZero(Xor(x[1], y[1]))
    ELSE IF IsZero(y) THEN (IF IsZero(x) THEN NaN ELSE Inf(Xor(x[1], y[1])))
    ELSE IF IsZero(x) THEN MakeZero(Xor(x[1], y[1]))
    ELSE DivFinite(Xor(x[1], y[1]), x, y)

\* the root rounded: sticky unless root^2 = N
SqrtRound(N, e, root) ==
    The({ Round(0, R, e, st) :
          R \in {Widen(root)}, st \in {IF MulWide(root, root) = N THEN 0 ELSE 1} })

\* a first iterate above the root of N, from the root t of the top limbs
SqrtStart(t) ==
    IF t >= Base THEN <<Base - 1, Base - 1, Base - 1, Base - 1>> ELSE <<0, 0, 0, t>>

\* the root of N * 4^e
SqrtOf(N, e) ==
    The({ SqrtRound(N, e, root) :
          root \in { Heron(N, x) :
                     x \in { SqrtStart(t + 1) : t \in {IntSqrt(N[8] * Base + N[7], 0, 13)} } } })

\* the root of nx, its significand shifted by k to 111 or 112 bits and an
\* even exponent
SqrtNormal(nx, k) ==
    The({ SqrtOf(N, (nx[2] - k) \div 2) :
          N \in { ShiftLeft(W, k) : W \in {Widen(nx[1])} } })

\* sqrt of a finite x > 0
SqrtEven(nx) == SqrtNormal(nx, IF nx[2] % 2 = 0 THEN 58 ELSE 59)

SqrtFinite(x) == The({ SqrtEven(nx) : nx \in {Normal(x)} })

\* x.sqrt(); sqrt(-0.0) = -0.0, the root of a negative number is NaN
Sqrt(x) ==
    IF IsNaN(x) THEN NaN
    ELSE IF IsZero(x) THEN x
    ELSE IF x[1] = 1 THEN NaN
    ELSE IF IsInf(x) THEN x
    ELSE SqrtFinite(x)

\* 1, 0, -1 as |x| >, =, < |y| for x, y not NaN
MagCmp(x, y) ==
    IF x[2] # y[2] THEN (IF x[2] > y[2] THEN 1 ELSE -1) ELSE BigCmp(x[3], y[3], 4)

\* x < y; false when either is NaN, and -0.0 < 0.0 is false
Lt(x, y) ==
    IF IsNaN(x) \/ IsNaN(y) THEN FALSE
    ELSE IF IsZero(x) /\ IsZero(y) THEN FALSE
    ELSE IF x[1] # y[1] THEN x[1] = 1
    ELSE IF x[1] = 0 THEN MagCmp(x, y) < 0
    ELSE MagCmp(x, y) > 0

\* x > y
Gt(x, y) == Lt(y, x)

\* x.max(y): the other operand when one is NaN
FMax(x, y) == IF IsNaN(x) THEN y ELSE IF IsNaN(y) THEN x ELSE IF Lt(x, y) THEN y ELSE x


(***************************************************************************)
(* The literals of lib.rs that are not integers, as the f64 nearest to the *)
(* decimal the source writes.                                              *)
(***************************************************************************)
\* 1e-30 in extract_diagonal: 0x39b4484bfeebc2a0 = 5708990770823840 * 2^-152,
\* which lies above 10^-30
DiagEps == <<0, -152, <<672, 15279, 1215, 1298>>>>

\* 1e-30 in the breakdown test of solve_pcg
PapEps == <<0, -152, <<672, 15279, 1215, 1298>>>>

\* val.abs() > 1e-30   (extract_diagonal)
AbsAboveEps(val) == Gt(FAbs(val), DiagEps)

\* pap.abs() < 1e-30   (solve_pcg); false for NaN
AbsBelowEps(pap) == Lt(FAbs(pap), PapEps)

(***************************************************************************)
(* The numerical primitives.  A vector is a tuple of f64.                  *)
(***************************************************************************)
\* the vector v with its elements computed
Vec(v) == The({ SubSeq(w, 1, Len(w)) : w \in {v} })

\* the sum of the first k products: sum() folds them with + from -0.0, the
\* neutral element of f64 addition
RECURSIVE dotPrefix(_, _, _)
dotPrefix(a, c, k) ==
    IF k = 0 THEN MakeZero(1)
    ELSE The({ Add(sum, prod) : sum \in {dotPrefix(a, c, k - 1)}, prod \in {Mul(a[k], c[k])} })

\* a.iter().zip(b.iter()).map(|(x, y)| x * y).sum()
dot(a, c) == dotPrefix(a, c, IF Len(a) < Len(c) THEN Len(a) ELSE Len(c))

\* dot(v, v).sqrt()
norm(v) == The({ Sqrt(d) : d \in {dot(v, v)} })

\* the inner loop of spmv over the 0-based entries row_start .. row_end - 1:
\* sum starts at 0.0 and adds values[j] * x[col_indices[j]]
RECURSIVE rowSum(_, _, _, _, _)
rowSum(vals, cols, xx, row_start, row_end) ==
    IF row_end <= row_start THEN Zero
    ELSE The({ Add(sum, prod) :
               sum \in {rowSum(vals, cols, xx, row_start, row_end - 1)},
               prod \in {Mul(vals[row_end], xx[cols[row_end] + 1])} })

\* what an operation yields when an index is out of bounds: the call panics
\* and returns nothing
Panic == "index out of bounds"

\* spmv over the rows 0 .. cnt - 1 indexes out of bounds: row_ptr[i + 1] in a
\* short row_ptr, values[j] or col_indices[j] past the end of the arrays, or
\* x[col_indices[j]] in an x shorter than the column index asks
spmvPanics(vals, cols, rptr, xx, cnt) ==
    \E k \in 1..cnt :
        \/ k + 1 > Len(rptr)
        \/ \E j \in (rptr[k] + 1)..rptr[k + 1] :
               j > Len(vals) \/ j > Len(cols) \/ cols[j] >= Len(xx)

\* y = A * x for the CSR matrix (vals, cols, rptr); k is the 1-based row
spmv(vals, cols, rptr, xx, n) ==
    IF spmvPanics(vals, cols, rptr, xx, n) THEN Panic
    ELSE Vec([k \in 1..n |-> rowSum(vals, cols, xx, rptr[k], rptr[k + 1])])

\* the scan of row i from entry j indexes out of bounds: col_indices[j] for
\* an entry scanned, or values[j] for the entry on the diagonal
RECURSIVE scanPanics(_, _, _, _, _)
scanPanics(vals, cols, i, j, row_end) ==
    IF j >= row_end THEN FALSE
    ELSE IF j >= Len(cols) THEN TRUE
    ELSE IF cols[j + 1] = i THEN j >= Len(vals)
    ELSE scanPanics(vals, cols, i, j + 1, row_end)

\* extract_diagonal over the rows 0 .. cnt - 1 indexes out of bounds
extractPanics(vals, cols, rptr, cnt) ==
    \E k \in 1..cnt :
        \/ k + 1 > Len(rptr)
        \/ scanPanics(vals, cols, k - 1, rptr[k], rptr[k + 1])

\* variant of the scan of a row: no break, the last entry on the diagonal decides
RECURSIVE diagScan_LastEntry(_, _, _, _, _)
diagScan_LastEntry(vals, cols, i, j, row_end) ==
    IF j >= row_end THEN One
    ELSE LET rest == diagScan_LastEntry(vals, cols, i, j + 1, row_end)
             here == IF AbsAboveEps(vals[j + 1]) THEN vals[j + 1] ELSE One
         IN  IF cols[j + 1] # i THEN rest
             ELSE IF \E k \in (j + 1)..(row_end - 1) : cols[k + 1] = i THEN rest ELSE here

\* the scan of row i (0-based) from entry j (0-based): the first entry whose
\* column index is i decides, and the scan stops there (break)
RECURSIVE diagScan(_, _, _, _, _)
diagScan(vals, cols, i, j, row_end) ==
    IF j >= row_end THEN One
    ELSE IF cols[j + 1] = i
         THEN (IF AbsAboveEps(vals[j + 1]) THEN vals[j + 1] ELSE One)
         ELSE diagScan(vals, cols, i, j + 1, row_end)

\* variant: the stored diagonal value is taken as it is, without the 1.0 fallback
RECURSIVE diagScan_NoFallback(_, _, _, _, _)
diagScan_NoFallback(vals, cols, i, j, row_end) ==
    IF j >= row_end THEN One
    ELSE IF cols[j + 1] = i THEN vals[j + 1]
         ELSE diagScan_NoFallback(vals, cols, i, j + 1, row_end)

extract_diagonal_NoFallback(vals, cols, rptr, n) ==
    IF extractPanics(vals, cols, rptr, n) THEN Panic
    ELSE Vec([k \in 1..n |-> diagScan_NoFallback(vals, cols, k - 1, rptr[k], rptr[k + 1])])

\* diag = vec![1.0; n], then for each row the scan above
extract_diagonal(vals, cols, rptr, n) ==
    IF extractPanics(vals, cols, rptr, n) THEN Panic
    ELSE Vec([k \in 1..n |-> diagScan(vals, cols, k - 1, rptr[k], rptr[k + 1])])

\* z[i] = r[i] / diag[i]
apply_jacobi(dg, rr) == Vec([k \in 1..Len(rr) |-> Div(rr[k], dg[k])])

\* variant: r = b, the initial guess is not looked at
residual_IgnoreGuess(vals, cols, rptr, bb, xx) == bb

\* spmv(.., &x, &mut r); r[i] = b[i] - r[i]
residual(vals, cols, rptr, bb, xx) ==
    The({ Vec([k \in 1..Len(bb) |-> Sub(bb[k], ax[k])]) :
          ax \in {spmv(vals, cols, rptr, xx, Len(bb))} })

\* variant: threshold = tol * bnorm, without the floor of 1.0
thresholdOf_NoFloor(tl, bb) == The({ Mul(tl, bnorm) : bnorm \in {norm(bb)} })

\* bnorm = norm(b); threshold = tol * bnorm.max(1.0)
thresholdOf(tl, bb) ==
    The({ Mul(tl, floor) : floor \in { FMax(bnorm, One) : bnorm \in {norm(bb)} } })

\* rnorm < threshold
belowThreshold(rn, thr) == Lt(rn, thr)

\* variant: the inclusive range 0..=max_iter
loopCond_Inclusive(ii, mi) == ii <= mi

\* for i in 0..max_iter: the loop enters the body for index i
loopCond(ii, mi) == ii < mi

\* variant: iter = i
iterOf_Index(ii) == ii

\* iter = i + 1
iterOf(ii) == ii + 1

\* for j in 0..n { x[j] .. }: an x shorter than n = b.len() is indexed out of bounds
axpyPanics(xx, cnt) == Len(xx) < cnt

\* for j in 0..n { x[j] += alpha * p[j] } with n = b.len(): the elements of x
\* past n are left as they are
axpy(xx, alpha, pp, cnt) ==
    IF axpyPanics(xx, cnt) THEN Panic
    ELSE Vec([k \in 1..Len(xx) |->
                 IF k <= cnt THEN The({ Add(xx[k], step) : step \in {Mul(alpha, pp[k])} })
                 ELSE xx[k]])

\* r[j] -= alpha * ap[j]
axmy(rr, alpha, aap) ==
    Vec([k \in 1..Len(rr) |-> The({ Sub(rr[k], step) : step \in {Mul(alpha, aap[k])} })])

\* variant: p[j] = z[j], the previous direction is dropped (steepest descent)
newDirection_NoBeta(zz, beta, pp) == zz

\* p[j] = z[j] + beta * p[j]
newDirection(zz, beta, pp) ==
    Vec([k \in 1..Len(zz) |-> The({ Add(zz[k], step) : step \in {Mul(beta, pp[k])} })])

(***************************************************************************)
(* Inputs.                                                                 *)
(***************************************************************************)
MaxIter == 3

MaxB == 1

IntVec(s) == Vec([k \in 1..Len(s) |-> FromInt(s[k])])

Csr(vals, cols, rptr) == [values |-> vals, col_indices |-> cols, row_ptr |-> rptr]

IntCsr(vals, cols, rptr) == Csr(IntVec(vals), cols, rptr)

\* the matrices of the three unit tests
TestIdentity3 == IntCsr(<<1, 1, 1>>, <<0, 1, 2>>, <<0, 1, 2, 3>>)

TestSimple2 == IntCsr(<<4, 1, 1, 3>>, <<0, 1, 0, 1>>, <<0, 2, 4>>)

TestSymmetric3 ==
    IntCsr(<<4, 1, 1, 1, 4, 1, 1, 1, 4>>, <<0, 1, 2, 0, 1, 2, 0, 1, 2>>, <<0, 3, 6, 9>>)

\* a further symmetric positive-definite matrix
Tridiag3 == IntCsr(<<2, 1, 1, 4, 1, 1, 2>>, <<0, 1, 0, 1, 2, 1, 2>>, <<0, 2, 5, 7>>)

\* well-formed CSR matrices that are not positive-definite
NegDiag2 == IntCsr(<<1, -1>>, <<0, 1>>, <<0, 1, 2>>)

NegCorner2 == IntCsr(<<1, 1, 1, -1>>, <<0, 1, 0, 1>>, <<0, 2, 4>>)

OffDiag2 == IntCsr(<<1, 1>>, <<1, 0>>, <<0, 1, 2>>)

Singular2 == IntCsr(<<1, 1, 1, 1>>, <<0, 1, 0, 1>>, <<0, 2, 4>>)

ZeroDiag2 == IntCsr(<<0, 1, 1, 3>>, <<0, 1, 0, 1>>, <<0, 2, 4>>)

\* rows that store two entries on the diagonal
DupDiag2 == IntCsr(<<0, 2, 3, -1>>, <<0, 0, 1, 1>>, <<0, 2, 4>>)

\* the f64 that follows 1e-30: 0x39b4484bfeebc2a1
AboveEps == <<0, -152, <<673, 15279, 1215, 1298>>>>

\* the diagonal matrix of 1e-30, which is not above 1e-30, and the f64 that is
TinyDiag2 == Csr(<<DiagEps, AboveEps>>, <<0, 1>>, <<0, 1, 2>>)

\* the 1 x 1 positive-definite matrix of 2^-110, about 7.7e-34
Tiny1 == Csr(<< <<0, -162, <<0, 0, 0, 1024>>>> >>, <<0>>, <<0, 1>>)

Matrices ==
    { TestIdentity3, TestSimple2, TestSymmetric3, Tridiag3, NegDiag2, NegCorner2,
      OffDiag2, Singular2, ZeroDiag2, DupDiag2, TinyDiag2, Tiny1 }

\* [[1, 0], [0, 0]], its second row stores no entry
Corner2 == IntCsr(<<1>>, <<0>>, <<0, 1, 1>>)

\* two rows of the 2 x 3 matrix [[4, 0, 1], [0, 3, 0]]: a column index is
\* not below the number of rows
Wide2 == IntCsr(<<4, 1, 3>>, <<0, 2, 1>>, <<0, 2, 3>>)

\* calls whose x0 has not the length of b, which solve_pcg accepts
Mismatched ==
    { [m |-> Corner2, b |-> IntVec(<<1, 1>>), x0 |-> IntVec(<<0>>)],
      [m |-> TestSimple2, b |-> IntVec(<<1, 2>>), x0 |-> IntVec(<<0>>)],
      [m |-> TestSimple2, b |-> IntVec(<<1, 2>>), x0 |-> IntVec(<<0, 0, 5>>)],
      [m |-> Wide2, b |-> IntVec(<<1, 1>>), x0 |-> IntVec(<<0, 0, 0>>)] }

Dim(m) == Len(m.row_ptr) - 1

\* the right-hand sides of the three unit tests
TestRhs == { <<1, 2>>, <<1, 2, 3>>, <<6, 6, 6>> }

Rhs(n) == { IntVec(s) : s \in [1..n -> 0..MaxB] \cup { t \in TestRhs : Len(t) = n } }

\* tolerances: 1/16 and 1/2
Tols == { Div(One, FromInt(16)), Div(One, FromInt(2)) }

\* the tolerance 1e-10 of the unit tests: 0x3ddb7cdfd9d7bdbb
TestTol == <<0, -86, <<15803, 10078, 3581, 1759>>>>

\* the max_iter of the unit tests
TestMaxIter == 100

\* the unit tests: test_simple_2x2, test_3x3_identity, test_3x3_symmetric
UnitTests ==
    { [m |-> TestSimple2, b |-> IntVec(<<1, 2>>)],
      [m |-> TestIdentity3, b |-> IntVec(<<1, 2, 3>>)],
      [m |-> TestSymmetric3, b |-> IntVec(<<6, 6, 6>>)] }

\* a tolerance between the residual norm the loop computes for the first
\* iterate of [[4,1],[1,3]] x = [1,1] and the norm of b - A*x computed from
\* that iterate: 0x3fa0c2d425ff6e9c, about 0.0327
TightTol == <<0, -57, <<11932, 6141, 11586, 1072>>>>

ZeroVec(n) == Vec([k \in 1..n |-> Zero])

OneVec(n) == Vec([k \in 1..n |-> One])

NoResult == [solution |-> <<>>, iterations |-> 0, residual |-> Zero]

Terminal == { "CONVERGED", "BROKEN_DOWN", "EXHAUSTED" }

(***************************************************************************)
(* State.  values .. max_iter are the arguments of solve_pcg; x .. iter    *)
(* its locals; result is the returned SolveResult.  pc is the state of the *)
(* call (INIT, ITERATING, CONVERGED, BROKEN_DOWN, EXHAUSTED, and PANICKED  *)
(* for a call that indexed out of bounds and returns nothing).  bodies     *)
(* counts the loop bodies entered, call numbers the call (the caller may   *)
(* solve once more from the returned solution) and first keeps the first   *)
(* call's outcome.  divisors records the divisors of the divisions the     *)
(* latest step executed: diag (apply_jacobi), pap (alpha) and rz (beta).   *)
(***************************************************************************)
VARIABLES values, col_indices, row_ptr, b, x0, tol, max_iter,
          x, r, z, p, ap, diag, threshold, rnorm, rz, i, iter,
          pc, result, bodies, call, first, divisors

inputs == <<values, col_indices, row_ptr, b, tol, max_iter>>

vars == <<values, col_indices, row_ptr, b, x0, tol, max_iter,
          x, r, z, p, ap, diag, threshold, rnorm, rz, i, iter,
          pc, result, bodies, call, first, divisors>>

NoDivision == [diag |-> <<>>, pap |-> <<>>, rz |-> <<>>]

n == Len(b)

\* SolveResult { solution: x, iterations: 0, residual: rnorm }   (early exit)
earlyResult(xx, rn) == [solution |-> xx, iterations |-> 0, residual |-> rn]

\* variant: rnorm is not refreshed, the residual of the previous iteration is returned
loopResult_StaleResidual(xx, it, rn) ==
    [solution |-> xx, iterations |-> it, residual |-> rnorm]

\* SolveResult { solution: x, iterations: iter, residual: rnorm }   (after the loop)
loopResult(xx, it, rn) == [solution |-> xx, iterations |-> it, residual |-> rn]

\* x is a copy of x0, the work vectors r, z, p, ap are zero
Entry(guess) ==
    /\ x = guess
    /\ r = ZeroVec(n) /\ z = ZeroVec(n) /\ p = ZeroVec(n) /\ ap = ZeroVec(n)
    /\ diag = OneVec(n)
    /\ threshold = Zero /\ rnorm = Zero /\ rz = Zero
    /\ i = 0 /\ iter = 0
    /\ pc = "INIT" /\ result = NoResult /\ bodies = 0
    /\ divisors = NoDivision

Init ==
    /\ \/ \E m \in Matrices :
          /\ values = m.values /\ col_indices = m.col_indices /\ row_ptr = m.row_ptr
          /\ \/ b \in Rhs(Dim(m)) /\ tol \in Tols /\ max_iter \in 0..MaxIter
             \/ /\ \E t \in UnitTests : t.m = m /\ b = t.b
                /\ tol = TestTol /\ max_iter = TestMaxIter
             \/ /\ m = TestSimple2 /\ b = IntVec(<<1, 1>>)
                /\ tol = TightTol /\ max_iter \in 0..MaxIter
          /\ x0 = ZeroVec(n)
       \/ \E g \in Mismatched :
          /\ values = g.m.values /\ col_indices = g.m.col_indices
          /\ row_ptr = g.m.row_ptr
          /\ b = g.b /\ x0 = g.x0
          /\ tol \in Tols /\ max_iter \in 0..MaxIter
    /\ call = 1
    /\ first = [pc |-> "NONE", result |-> NoResult]
    /\ Entry(x0)

\* the preconditioner, the initial residual, the threshold, the early exit,
\* and the first search direction; an index out of bounds in extract_diagonal
\* or in spmv ends the call
Start ==
    /\ pc = "INIT"
    /\ IF extractPanics(values, col_indices, row_ptr, n)
       THEN /\ pc' = "PANICKED"
            /\ divisors' = NoDivision
            /\ UNCHANGED <<diag, r, threshold, rnorm, z, p, rz, result>>
       ELSE \E dg \in {extract_diagonal(values, col_indices, row_ptr, n)} :
            /\ diag' = dg
            /\ IF spmvPanics(values, col_indices, row_ptr, x, n)
               THEN /\ pc' = "PANICKED"
                    /\ divisors' = NoDivision
                    /\ UNCHANGED <<r, threshold, rnorm, z, p, rz, result>>
               ELSE \E r0 \in {residual(values, col_indices, row_ptr, b, x)},
                       thr \in {thresholdOf(tol, b)} :
                    \E rn \in {norm(r0)} :
                    /\ r' = r0
                    /\ threshold' = thr
                    /\ rnorm' = rn
                    /\ IF belowThreshold(rn, thr)
                       THEN /\ pc' = "CONVERGED"
                            /\ result' = earlyResult(x, rn)
                            /\ divisors' = NoDivision
                            /\ UNCHANGED <<z, p, rz>>
                       ELSE \E z0 \in {apply_jacobi(dg, r0)} :
                            /\ pc' = "ITERATING"
                            /\ z' = z0
                            /\ p' = z0
                            /\ rz' = dot(r0, z0)
                            /\ divisors' = [diag |-> dg, pap |-> <<>>, rz |-> <<>>]
                            /\ UNCHANGED result
    /\ UNCHANGED <<inputs, x0, x, ap, i, iter, bodies, call, first>>

\* one body of the loop, for index i; a break returns, and an index out of
\* bounds in spmv or in the update of x ends the call
LoopBody ==
    /\ pc = "ITERATING"
    /\ loopCond(i, max_iter)
    /\ iter' = iterOf(i)
    /\ bodies' = bodies + 1
    /\ IF spmvPanics(values, col_indices, row_ptr, p, n)
       THEN /\ pc' = "PANICKED"
            /\ divisors' = NoDivision
            /\ UNCHANGED <<ap, x, r, rnorm, z, rz, p, i, result>>
       ELSE \E ap1 \in {spmv(values, col_indices, row_ptr, p, n)} :
            \E pap \in {dot(p, ap1)} :
            /\ ap' = ap1
            /\ IF AbsBelowEps(pap)
               THEN /\ pc' = "BROKEN_DOWN"
                    /\ result' = loopResult(x, iterOf(i), rnorm)
                    /\ divisors' = NoDivision
                    /\ UNCHANGED <<x, r, rnorm, z, rz, p, i>>
               ELSE IF axpyPanics(x, n)
               THEN /\ pc' = "PANICKED"
                    /\ divisors' = [diag |-> <<>>, pap |-> <<pap>>, rz |-> <<>>]
                    /\ UNCHANGED <<x, r, rnorm, z, rz, p, i, result>>
               ELSE \E alpha \in {Div(rz, pap)} :
                    \E x1 \in {axpy(x, alpha, p, n)}, r1 \in {axmy(r, alpha, ap1)} :
                    \E rn \in {norm(r1)} :
                    /\ x' = x1
                    /\ r' = r1
                    /\ rnorm' = rn
                    /\ IF belowThreshold(rn, threshold)
                       THEN /\ pc' = "CONVERGED"
                            /\ result' = loopResult(x1, iterOf(i), rn)
                            /\ divisors' = [diag |-> <<>>, pap |-> <<pap>>, rz |-> <<>>]
                            /\ UNCHANGED <<z, rz, p, i>>
                       ELSE \E z1 \in {apply_jacobi(diag, r1)} :
                            \E rz_new \in {dot(r1, z1)} :
                            \E beta \in {Div(rz_new, rz)} :
                            /\ z' = z1
                            /\ rz' = rz_new
                            /\ p' = newDirection(z1, beta, p)
                            /\ i' = i + 1
                            /\ divisors' = [diag |-> diag, pap |-> <<pap>>, rz |-> <<rz>>]
                            /\ UNCHANGED <<pc, result>>
    /\ UNCHANGED <<inputs, x0, diag, threshold, call, first>>

\* the range 0..max_iter is used up
LoopExit ==
    /\ pc = "ITERATING"
    /\ ~loopCond(i, max_iter)
    /\ pc' = "EXHAUSTED"
    /\ result' = loopResult(x, iter, rnorm)
    /\ divisors' = NoDivision
    /\ UNCHANGED <<inputs, x0, x, r, z, p, ap, diag, threshold, rnorm, rz, i, iter,
                   bodies, call, first>>

\* the caller solves again, same matrix, b, tol and max_iter, from the
\* solution the first call returned
SolveAgain ==
    /\ pc \in Terminal
    /\ call = 1
    /\ call' = 2
    /\ first' = [pc |-> pc, result |-> result]
    /\ x0' = result.solution
    /\ x' = result.solution
    /\ r' = ZeroVec(n) /\ z' = ZeroVec(n) /\ p' = ZeroVec(n) /\ ap' = ZeroVec(n)
    /\ diag' = OneVec(n)
    /\ threshold' = Zero /\ rnorm' = Zero /\ rz' = Zero
    /\ i' = 0 /\ iter' = 0
    /\ pc' = "INIT" /\ result' = NoResult /\ bodies' = 0
    /\ divisors' = NoDivision
    /\ UNCHANGED inputs

Next == Start \/ LoopBody \/ LoopExit \/ SolveAgain

Spec == Init /\ [][Next]_vars

\* a call runs on: the steps of solve_pcg are taken while they can be; the
\* caller need not solve again
Run == Start \/ LoopBody \/ LoopExit

FairSpec == Spec /\ WF_vars(Run)

(***************************************************************************)
(* What the properties below speak about, computed from the inputs with    *)
(* the f64 operations of the code.                                         *)
(***************************************************************************)
\* u >= w; false when either is NaN
Ge(u, w) == ~IsNaN(u) /\ ~IsNaN(w) /\ ~Lt(u, w)

\* (u - w).abs() < eps, as the unit tests assert
Within(u, w, eps) == Lt(FAbs(Sub(u, w)), eps)

\* the 1e-8 of the unit tests' assertions: 0x3e45798ee2308c3a
TestEps == <<0, -79, <<3130, 2242, 6382, 1374>>>>

\* tol * max(||b||, 1)
SpecThreshold == Mul(tol, FMax(Sqrt(dot(b, b)), One))

\* || b - A*v ||
TrueResidual(v) ==
    LET av == spmv(values, col_indices, row_ptr, v, n)
    IN  norm(Vec([k \in 1..n |-> Sub(b[k], av[k])]))

\* the invariants of a CSR matrix of n rows and columns
WellFormedCsr ==
    /\ Len(row_ptr) = n + 1
    /\ Len(col_indices) = Len(values)
    /\ row_ptr[1] = 0 /\ row_ptr[n + 1] = Len(values)
    /\ \A k \in 1..n : row_ptr[k] <= row_ptr[k + 1]
    /\ \A k \in 1..Len(col_indices) : col_indices[k] \in 0..(n - 1)

\* the inputs as the data model asks: a CSR matrix, and x0 of the length of b
WellFormed == WellFormedCsr /\ Len(x0) = n

\* || b - A*x0 || < threshold; where A*x0 indexes out of bounds there is no
\* residual
InitiallyBelow ==
    /\ ~spmvPanics(values, col_indices, row_ptr, x0, n)
    /\ Lt(TrueResidual(x0), SpecThreshold)

Matrix == Csr(values, col_indices, row_ptr)

\* the dense entry A[i][j] (1-based): the sum of row i's stored entries in column j
RECURSIVE entrySum(_, _, _)
entrySum(j, k0, k1) ==
    IF k1 <= k0 THEN Zero
    ELSE Add(entrySum(j, k0, k1 - 1), IF col_indices[k1] = j - 1 THEN values[k1] ELSE Zero)

A(ii, j) == entrySum(j, row_ptr[ii], row_ptr[ii + 1])

Minor2 == Sub(Mul(A(1, 1), A(2, 2)), Mul(A(1, 2), A(2, 1)))

Minor3 ==
    Add(Sub(Mul(A(1, 1), Sub(Mul(A(2, 2), A(3, 3)), Mul(A(2, 3), A(3, 2)))),
            Mul(A(1, 2), Sub(Mul(A(2, 1), A(3, 3)), Mul(A(2, 3), A(3, 1))))),
        Mul(A(1, 3), Sub(Mul(A(2, 1), A(3, 2)), Mul(A(2, 2), A(3, 1)))))

\* symmetric with positive leading principal minors (Sylvester), n <= 3
IsSPD ==
    /\ WellFormedCsr
    /\ n \in 1..3
    /\ \A ii \in 1..n : \A j \in 1..n : A(ii, j) = A(j, ii)
    /\ Lt(Zero, A(1, 1))
    /\ n >= 2 => Lt(Zero, Minor2)
    /\ n >= 3 => Lt(Zero, Minor3)

(***************************************************************************)
(* C1.  Early exit: when the initial residual norm is below the threshold  *)
(* the call returns with no loop body executed, iterations = 0, the        *)
(* solution equal to x0 and the residual equal to the initial residual     *)
(* norm.                                                                   *)
(***************************************************************************)
C1_EarlyExit ==
    (pc # "INIT" /\ InitiallyBelow) =>
        /\ pc = "CONVERGED"
        /\ bodies = 0
        /\ result.iterations = 0
        /\ result.solution = x0
        /\ result.residual = TrueResidual(x0)

C1_Witness ==
    /\ pc = "CONVERGED" /\ InitiallyBelow
    /\ x0 # ZeroVec(n)
    /\ result.solution = x0 /\ result.iterations = 0
    /\ Lt(Zero, result.residual)

(***************************************************************************)
(* C2.  As claimed: for every input the call reaches CONVERGED,            *)
(* BROKEN_DOWN or EXHAUSTED, the loop body is entered at most max_iter     *)
(* times and the returned iterations never exceeds max_iter.               *)
(***************************************************************************)
C2_Capped ==
    /\ bodies <= max_iter /\ iter <= max_iter /\ i <= max_iter
    /\ pc \in Terminal => result.iterations <= max_iter

C2_Original ==
    /\ [](C2_Capped)
    /\ [](pc \in {"INIT", "ITERATING"} \cup Terminal)
    /\ (pc = "INIT") ~> (pc \in Terminal)

(***************************************************************************)
(* C2, amended.  For every well-formed input (a CSR matrix of n = len(b)   *)
(* rows and columns, x0 of length n) the call eventually reaches           *)
(* CONVERGED, BROKEN_DOWN or EXHAUSTED and never panics; for every input   *)
(* the loop body is entered at most max_iter times and the returned        *)
(* iterations never exceeds max_iter.  On other inputs the call can index  *)
(* out of bounds and return nothing.  "Eventually" is checked under        *)
(* FairSpec, where a call that can step does step; besides, C2_Work is a   *)
(* natural number that every step strictly decreases, so a call ends       *)
(* after at most max_iter + 2 steps.                                       *)
(***************************************************************************)
C2_CallWork ==
    CASE pc = "INIT" -> max_iter + 2
      [] pc = "ITERATING" -> (max_iter - i) + 1
      [] OTHER -> 0

C2_Work == (IF call = 1 THEN max_iter + 3 ELSE 0) + C2_CallWork

C2_Termination ==
    /\ [](C2_Capped)
    /\ [](WellFormed => pc \in {"INIT", "ITERATING"} \cup Terminal)
    /\ (pc = "INIT" /\ WellFormed) ~> (pc \in Terminal)
    /\ [](C2_Work >= 0)
    /\ [][C2_Work' < C2_Work]_vars

C2_Witness ==
    /\ pc = "EXHAUSTED" /\ max_iter >= 2 /\ WellFormed
    /\ bodies = max_iter /\ result.iterations = max_iter
    /\ IsFinite(result.residual)

(***************************************************************************)
(* C3.  As claimed: iterations = 0 is returned only by the early exit.     *)
(***************************************************************************)
C3_Original ==
    (pc \in Terminal /\ result.iterations = 0) =>
        (pc = "CONVERGED" /\ bodies = 0 /\ InitiallyBelow)

(***************************************************************************)
(* C3, amended.  iterations = 0 is returned only by the early exit or when *)
(* max_iter = 0, where the loop is skipped and the call ends EXHAUSTED with *)
(* iterations = 0 although the residual is not below the threshold.         *)
(***************************************************************************)
C3_ZeroOnlyEarlyOrNoBudget ==
    (pc \in Terminal /\ result.iterations = 0) =>
        \/ (pc = "CONVERGED" /\ bodies = 0 /\ InitiallyBelow)
        \/ (pc = "EXHAUSTED" /\ bodies = 0 /\ max_iter = 0 /\ ~InitiallyBelow)

C3_Witness ==
    /\ pc = "CONVERGED" /\ result.iterations = 0 /\ max_iter >= 1
    /\ InitiallyBelow /\ call = 1

(***************************************************************************)
(* C4.  As claimed: the second call, started from the solution the first   *)
(* call returned, returns iterations = 0 whatever state the first call     *)
(* ended in.                                                               *)
(***************************************************************************)
C4_Original ==
    (call = 2 /\ pc \in Terminal) => result.iterations = 0

(***************************************************************************)
(* C4, amended.  The second call (same matrix, b, tol, max_iter, x0 = the  *)
(* returned solution) returns iterations = 0 exactly when the residual     *)
(* norm it computes from that solution is below the threshold, or          *)
(* max_iter = 0; it then returns the same solution.  That is so when the   *)
(* first call left by the early exit: the second call repeats it, same     *)
(* solution and residual.  It is not so in general after BROKEN_DOWN or    *)
(* EXHAUSTED, nor after a convergence in the loop, which tests the norm of *)
(* the updated r and not of b - A*x: with the tight tolerance the first    *)
(* call converges after one iteration and the second iterates again.       *)
(***************************************************************************)
C4_IdempotentAfterEarlyExit ==
    (call = 2 /\ pc \in Terminal) =>
        /\ result.iterations = 0 <=> (InitiallyBelow \/ max_iter = 0)
        /\ InitiallyBelow =>
              /\ pc = "CONVERGED" /\ bodies = 0
              /\ result.solution = first.result.solution
        /\ (first.pc = "CONVERGED" /\ first.result.iterations = 0) =>
              /\ pc = "CONVERGED" /\ bodies = 0
              /\ result = first.result
        /\ (tol = TightTol /\ max_iter >= 1) =>
              /\ first.pc = "CONVERGED" /\ first.result.iterations = 1
              /\ ~InitiallyBelow
              /\ result.iterations >= 1

C4_Witness ==
    /\ call = 2 /\ pc = "CONVERGED" /\ result.iterations = 0
    /\ first.pc = "CONVERGED" /\ first.result.iterations >= 2
    /\ result.residual # first.result.residual

(***************************************************************************)
(* C5.  As claimed: for a symmetric positive-definite matrix, x0 = 0,      *)
(* tol > 0 and max_iter >= n the call returns a solution with              *)
(* ||b - A*x|| <= threshold after at most n iterations, and the three      *)
(* systems of the unit tests return their solutions: b for the identity,   *)
(* and [1/11, 7/11] and [1, 1, 1] within the 1e-8 of the tests.            *)
(***************************************************************************)
C5_Case ==
    /\ call = 1 /\ x0 = ZeroVec(n) /\ IsSPD /\ Lt(Zero, tol)
    /\ max_iter >= n /\ pc \in Terminal

\* ||b - A*x|| <= threshold for the returned x
C5_TrueBound == Ge(SpecThreshold, TrueResidual(result.solution))

C5_Bound ==
    /\ C5_TrueBound
    /\ result.iterations <= n
    /\ bodies <= n

C5_Simple2Case == Matrix = TestSimple2 /\ b = IntVec(<<1, 2>>)

C5_Simple2Solved ==
    /\ Within(result.solution[1], Div(One, FromInt(11)), TestEps)
    /\ Within(result.solution[2], Div(FromInt(7), FromInt(11)), TestEps)

C5_Symmetric3Solved ==
    (Matrix = TestSymmetric3 /\ b = IntVec(<<6, 6, 6>>)) =>
        \A k \in 1..3 : Within(result.solution[k], One, TestEps)

C5_UnitTest ==
    /\ tol = TestTol /\ max_iter = TestMaxIter
    /\ [m |-> Matrix, b |-> b] \in UnitTests

C6_IterationsCountBodies ==
    /\ pc \in Terminal => result.iterations = bodies
    /\ (pc = "CONVERGED" /\ bodies > 0) => result.iterations = i + 1
    /\ pc = "EXHAUSTED" => (result.iterations = max_iter /\ i = max_iter)

C6_Witness ==
    /\ pc = "CONVERGED" /\ i = 2 /\ result.iterations = 3 /\ bodies = 3

(***************************************************************************)
(* C7.  As claimed: the returned residual is the norm of r at the return;  *)
(* it is below the threshold exactly when the call ended CONVERGED and is  *)
(* >= threshold after a breakdown or after max_iter iterations.            *)
(***************************************************************************)
C7_Original ==
    pc \in Terminal =>
        /\ result.residual = norm(r)
        /\ Lt(result.residual, SpecThreshold) <=> pc = "CONVERGED"
        /\ pc \in {"BROKEN_DOWN", "EXHAUSTED"} => Ge(result.residual, SpecThreshold)

(***************************************************************************)
(* C7, amended.  The returned residual is the norm of r at the return and  *)
(* is below the threshold exactly when the call ended CONVERGED; after a   *)
(* breakdown it is >= threshold, and after max_iter iterations it is       *)
(* >= threshold or NaN (then neither comparison holds).                    *)
(***************************************************************************)
C7_ResidualTellsConvergence ==
    pc \in Terminal =>
        /\ result.residual = norm(r)
        /\ result.residual = rnorm
        /\ Lt(result.residual, SpecThreshold) <=> pc = "CONVERGED"
        /\ pc = "BROKEN_DOWN" => Ge(result.residual, SpecThreshold)
        /\ pc = "EXHAUSTED" =>
              (Ge(result.residual, SpecThreshold) \/ IsNaN(result.residual))

C7_Witness ==
    /\ pc = "EXHAUSTED" /\ IsNaN(result.residual)
    /\ \A k \in 1..n : IsNaN(r[k])

(***************************************************************************)
(* C8.  As claimed: a breakdown at loop index i leaves x, r and rnorm      *)
(* unchanged, returns them, and the returned iterations does not count the *)
(* breakdown iteration (it is i).                                          *)
(***************************************************************************)
C8_Breakdown(count) ==
    (pc = "ITERATING" /\ pc' = "BROKEN_DOWN") =>
        /\ x' = x /\ r' = r /\ rnorm' = rnorm
        /\ result'.solution = x
        /\ result'.residual = rnorm
        /\ result'.iterations = count

C8_Original == [][C8_Breakdown(i)]_vars

(***************************************************************************)
(* C8, amended.  A breakdown at loop index i leaves x, r and rnorm         *)
(* unchanged and returns them; the returned iterations is i + 1, it counts *)
(* the breakdown iteration.                                                *)
(***************************************************************************)
C8_BreakdownCounts == [][C8_Breakdown(i + 1)]_vars

C8_Witness ==
    /\ pc = "BROKEN_DOWN" /\ i = 1 /\ result.iterations = 2
    /\ result.solution = x /\ x # x0

(***************************************************************************)
(* C9.  As claimed: diag[i] is the stored value of an entry of row i in    *)
(* column i whose absolute value exceeds 1e-30 when the row has such an    *)
(* entry, and 1.0 otherwise, also for rows with several such entries.      *)
(***************************************************************************)
RowDiagEntries(ii) ==
    { k \in (row_ptr[ii] + 1)..row_ptr[ii + 1] : col_indices[k] = ii - 1 }

C9_Original ==
    pc # "INIT" =>
        \A ii \in 1..n :
            LET big == { k \in RowDiagEntries(ii) : AbsAboveEps(values[k]) }
            IN  IF big # {} THEN \E k \in big : diag[ii] = values[k]
                ELSE diag[ii] = One

(***************************************************************************)
(* C9, amended.  The first stored entry of row i in column i decides:      *)
(* diag[i] is its value when the absolute value exceeds 1e-30 and 1.0      *)
(* otherwise, whatever later entries in column i hold; 1.0 when the row    *)
(* has no entry in column i.                                               *)
(***************************************************************************)
C9_FirstEntryDecides ==
    pc # "INIT" =>
        \A ii \in 1..n :
            LET e == RowDiagEntries(ii)
            IN  IF e = {} THEN diag[ii] = One
                ELSE LET k == CHOOSE m \in e : \A q \in e : m <= q
                     IN  diag[ii] = IF AbsAboveEps(values[k]) THEN values[k] ELSE One

C9_Witness ==
    /\ pc # "INIT" /\ Matrix = DupDiag2
    /\ Cardinality(RowDiagEntries(1)) = 2
    /\ diag = <<One, FromInt(3)>>

(***************************************************************************)
(* C10.  As claimed: no division by zero.  Every diag[i] used as a divisor *)
(* has |diag[i]| > 1e-30, alpha is computed only when |pap| >= 1e-30, and  *)
(* beta only when rz # 0.                                                  *)
(***************************************************************************)
C10_Original ==
    /\ \A k \in DOMAIN divisors.diag : AbsAboveEps(divisors.diag[k])
    /\ \A k \in DOMAIN divisors.pap : Ge(FAbs(divisors.pap[k]), PapEps)
    /\ \A k \in DOMAIN divisors.rz : ~IsZero(divisors.rz[k])

(***************************************************************************)
(* C10, amended.  Every diag[i] used as a divisor has |diag[i]| > 1e-30,   *)
(* and alpha is computed only when |pap| < 1e-30 is false.  beta's divisor *)
(* rz is not guarded: it is positive when every extracted diagonal entry   *)
(* is positive (and nothing underflows), and with a negative diagonal      *)
(* entry it can be 0, and beta is then 0/0.                                *)
(***************************************************************************)
C10_DivisorsNonZero ==
    /\ \A k \in DOMAIN divisors.diag : AbsAboveEps(divisors.diag[k])
    /\ \A k \in DOMAIN divisors.pap : ~AbsBelowEps(divisors.pap[k])
    /\ (\A k \in 1..n : Lt(Zero, diag[k])) =>
          \A k \in DOMAIN divisors.rz : Lt(Zero, divisors.rz[k])
    /\ \A k \in DOMAIN divisors.rz :
          IsZero(divisors.rz[k]) => \E q \in 1..n : Lt(diag[q], Zero)

C10_Witness ==
    /\ pc = "ITERATING" /\ i = 2
    /\ divisors.rz # <<>> /\ divisors.pap # <<>> /\ divisors.diag = diag
    /\ \A k \in 1..n : Lt(Zero, diag[k])

=============================================================================
